---- MODULE Spec2Model ----
(***************************************************************************)
(* The streaming agent loop of build-your-own-code-agent (chapter 6/7      *)
(* Agent.run): conversation state, one inference request at a time, the    *)
(* sequential tool dispatch and the entry point's try/catch/finally.       *)
(*                                                                         *)
(* agent.ts itself is not among the source files.  The parts of it that    *)
(* the repository's documents quote (the tool error handling pattern, the  *)
(* agentic loop pattern, the flow diagram) are modelled from those quotes; *)
(* the rest of the loop is modelled from the specification.                *)
(***************************************************************************)
EXTENDS Naturals, Integers, Sequences, FiniteSets, TLC

VARIABLES
    conversation,   \* Anthropic.MessageParam[]: the turns, oldest first
    pc,             \* state of the agent loop
    outstanding,    \* number of inference requests in flight
    streamBlocks,   \* content blocks finalized so far by the request in flight
    convAtRequest,  \* history: the conversation when the last request was issued
    toolIdx,        \* number of tool_use blocks of the current turn already dispatched
    running,        \* ids of the tool_use blocks whose Execute is in progress
    toolsResults,   \* tool_result blocks collected in the current dispatch phase
    dispatched,     \* history: ids in the order their dispatch began
    executed,       \* history: ids in the order their Execute was invoked
    settled,        \* history: id -> how its Execute settled
    errorsShown,    \* number of console error(...) calls
    turnAborted,    \* history: the last request of the current user turn failed
    nextId,         \* next tool_use id the inference service hands out
    lines,          \* user lines read so far
    requests,       \* inference requests issued so far
    rlOpen,         \* the readline interface is open (the process is interactive)
    lastStep,       \* history: name of the last step taken
    thinkingShown   \* history: thinking blocks of the request completed by the last step

\* The stage classifier applied to a text (console-reasoning.ts).
VARIABLES
    text,           \* the text handed to detectReasoningStage, as characters
    stage,          \* what detectReasoningStage returned for it
    prevText,       \* history: the text of the previous call
    prevStage,      \* history: the stage of the previous call
    appends         \* number of times the text has grown

\* The stream event handler and the console it drives.
VARIABLES
    events,                 \* stream events handled so far
    open,                   \* history: block index -> kind of the open block, or "closed"
    accumulatedText,        \* history: block index -> thinking text received so far
    currentReasoningStage,  \* the handler's currentReasoningStage
    claudeTurnStarted,      \* console-reasoning.ts:11
    reasoningBlockActive,   \* console-reasoning.ts:12
    display,                \* history: console calls since the user was last prompted
    lastEvent,              \* history: the last stream event handled
    startedTools,           \* names of the tool_use blocks started in the current stream
    streamNo,               \* number of the current stream within the user turn
    turnEnd                 \* history: what the last finishClaudeTurn wrote

loopVars == <<conversation, pc, outstanding, streamBlocks, convAtRequest, toolIdx,
              running, toolsResults, dispatched, executed, settled, errorsShown,
              turnAborted, nextId, lines, requests, rlOpen, lastStep,
              thinkingShown>>

classifierVars == <<text, stage, prevText, prevStage, appends>>

displayVars == <<events, open, accumulatedText, currentReasoningStage,
                 claudeTurnStarted, reasoningBlockActive, display, lastEvent,
                 startedTools, streamNo, turnEnd>>

vars == <<loopVars, classifierVars, displayVars>>

----------------------------------------------------------------------------
(* Bounds of the model *)

MaxLines == 2
MaxRequests == 2
MaxBlocks == 2
MaxToolUses == 2

----------------------------------------------------------------------------
(* Data *)

\* The tools handed to the Agent by the entry point.
Registry == {"list_files", "read_file", "bash", "edit_file", "grep"}

\* Names the model may put in a tool_use block: a registered one and one
\* that is not registered.
RequestedNames == {"read_file", "frobnicate"}

UserLines == {"hi"}

\* What a tool's Execute may resolve with, and the messages it may reject with
\* (an Error may carry an empty message).
ToolValues == {"contents"}
ErrorMessages == {"", "ENOENT"}

Settlements ==
    [kind : {"resolved"}, value : ToolValues]
        \cup [kind : {"rejected"}, message : ErrorMessages]

TextBlock(t) == [type |-> "text", text |-> t]

ThinkingBlock(t) == [type |-> "thinking", thinking |-> t]

\* What the partial-input buffer of a tool_use block may hold when the block
\* closes: a complete JSON object, or one the stream cut short.
WellFormedInputs == {"{\"path\":\"a\"}"}
InputBuffers == WellFormedInputs \cup {"{\"path\":"}

\* The tool_use blocks the model may stream, as <<name, partial-input buffer>>:
\* a registered tool with a complete and with a cut-short input, and an
\* unregistered one (whose input is never looked at) with a complete input.
RequestedToolUses ==
    {use \in RequestedNames \X InputBuffers :
        use[1] \in Registry \/ use[2] \in WellFormedInputs}

\* The diagnostic of a tool_use block whose input did not parse.
InputParseMessage(buffer) == "invalid tool input: " \o buffer

\* Parsing the partial-input buffer at block close: the structured input
\* value, or the parse failure with its message.
ParseInput(buffer) ==
    IF buffer \in WellFormedInputs
    THEN [ok |-> TRUE, value |-> buffer]
    ELSE [ok |-> FALSE, message |-> InputParseMessage(buffer)]

\* The finalized tool_use block of a closed block with this buffer.
ToolUseBlock(id, name, buffer) ==
    [type |-> "tool_use", id |-> id, name |-> name, input |-> ParseInput(buffer)]

\* JavaScript truthiness of a string: only the empty string is falsy.
Truthy(s) == s # ""

ToolResultBlock_NoErrorFlag(block, toolResult, toolErrorMsg) ==
    [type |-> "tool_result",
     tool_use_id |-> block.id,
     content |-> IF Truthy(toolErrorMsg) THEN toolErrorMsg ELSE toolResult,
     is_error |-> FALSE]

ToolResultBlock_WrongId(block, toolResult, toolErrorMsg) ==
    [type |-> "tool_result",
     tool_use_id |-> 0,
     content |-> IF Truthy(toolErrorMsg) THEN toolErrorMsg ELSE toolResult,
     is_error |-> Truthy(toolErrorMsg)]

\* toolsResults.push({type: "tool_result", tool_use_id: block.id,
\*                    content: toolErrorMsg || toolResult, is_error: !!toolErrorMsg})
ToolResultBlock(block, toolResult, toolErrorMsg) ==
    [type |-> "tool_result",
     tool_use_id |-> block.id,
     content |-> IF Truthy(toolErrorMsg) THEN toolErrorMsg ELSE toolResult,
     is_error |-> Truthy(toolErrorMsg)]

\* try { toolResult = await tool.Execute(block.input) }
\* catch (err) { toolErrorMsg = err.message }
\* as the pair <<toolResult, toolErrorMsg>>, both empty before the call.
ExecuteOutcome(settlement) ==
    IF settlement.kind = "resolved"
    THEN <<settlement.value, "">>
    ELSE <<"", settlement.message>>

\* The diagnostic of a tool_use block whose name is not registered.
NotFoundMessage(name) == "tool not found: " \o name

UserTurn(content) == [role |-> "user", content |-> content]

AssistantTurn(content) == [role |-> "assistant", content |-> content]

AppendTurn_Replace(conv, turn) ==
    IF conv = <<>> THEN <<turn>> ELSE [conv EXCEPT ![Len(conv)] = turn]

\* conversation.push(turn)
AppendTurn(conv, turn) == Append(conv, turn)

IsToolUse(b) == b.type = "tool_use"

IsToolResult(b) == b.type = "tool_result"

\* The tool_use blocks of a turn, in stream order.
ToolUses(turn) == SelectSeq(turn.content, IsToolUse)

HasToolUse_Never(turn) == FALSE

\* "Has tool_use?" of the flow diagram.
HasToolUse(turn) == ToolUses(turn) # <<>>

NextPhase_NeverAwaits(turn) == "Dispatching"

\* Where the loop goes after an assistant turn: execute its tools, or finish
\* the turn and prompt the user.
NextPhase(turn) == IF HasToolUse(turn) THEN "Dispatching" ELSE "AwaitingInput"

HistoryBlocks_KeepsThinking(blocks) == blocks

\* Thinking blocks are displayed but not kept in the conversation history.
HistoryBlocks(blocks) == SelectSeq(blocks, LAMBDA b : b.type # "thinking")

LastTurn == conversation[Len(conversation)]

\* The tool_use blocks the current dispatch phase works through.
Pending == ToolUses(LastTurn)

CanStartNext_NoAwait == TRUE

\* `await tool.Execute(...)`: the loop goes on to the next block only when
\* the Execute it started has settled.
CanStartNext == running = {}

RunCatchesTransportError_Escapes == FALSE

\* A failed inference request is caught inside the loop (it aborts the user
\* turn) and does not reach the entry point's catch.
RunCatchesTransportError == TRUE

----------------------------------------------------------------------------
(* The shape of the state *)

\* type ContentBlock = text | tool_use | tool_result (thinking blocks only
\* occur in a stream, never in a stored turn).
IsContentBlock(b) ==
    \/ b \in [type : {"text"}, text : STRING]
    \/ /\ DOMAIN b = {"type", "id", "name", "input"}
       /\ b.type = "tool_use" /\ b.id \in Nat /\ b.name \in STRING
       /\ b.input \in {ParseInput(buffer) : buffer \in InputBuffers}
    \/ b \in [type : {"tool_result"}, tool_use_id : Nat, content : STRING,
              is_error : BOOLEAN]

\* type MessageParam = {role: "user" | "assistant", content: ContentBlock[]}
IsMessageParam(t) ==
    /\ DOMAIN t = {"role", "content"}
    /\ t.role \in {"user", "assistant"}
    /\ \A j \in 1..Len(t.content) : IsContentBlock(t.content[j])

TypeOK ==
    /\ \A i \in 1..Len(conversation) : IsMessageParam(conversation[i])
    /\ pc \in {"AwaitingInput", "Requesting", "Streaming", "Dispatching", "Ended"}
    /\ outstanding \in Nat
    /\ \A j \in 1..Len(streamBlocks) :
         IsContentBlock(streamBlocks[j]) \/ streamBlocks[j].type = "thinking"
    /\ toolIdx \in Nat
    /\ running \subseteq Nat
    /\ \A j \in 1..Len(toolsResults) : toolsResults[j].type = "tool_result"
    /\ errorsShown \in Nat
    /\ turnAborted \in BOOLEAN
    /\ nextId \in Nat
    /\ lines \in 0..MaxLines
    /\ requests \in 0..MaxRequests
    /\ rlOpen \in BOOLEAN
    /\ thinkingShown \in 0..MaxBlocks

----------------------------------------------------------------------------
(* The stage classifier: detectReasoningStage (console-reasoning.ts)       *)
(*                                                                         *)
(* A text is a sequence of one-character strings.  The four regular        *)
(* expressions are matched as JavaScript matches them: \w is an ASCII      *)
(* letter, digit or underscore, \b is a position with a \w character on    *)
(* exactly one side, and test() looks for a match starting anywhere.       *)

\* enum ReasoningStage
ANALYZING == "analyzing"
PLANNING == "planning"
DECIDING == "deciding"
EXECUTING == "executing"
EVALUATING == "evaluating"

ReasoningStage == {ANALYZING, PLANNING, DECIDING, EXECUTING, EVALUATING}

LowerCaseLetters ==
    <<"a", "b", "c", "d", "e", "f", "g", "h", "i", "j", "k", "l", "m",
      "n", "o", "p", "q", "r", "s", "t", "u", "v", "w", "x", "y", "z">>

UpperCaseLetters ==
    <<"A", "B", "C", "D", "E", "F", "G", "H", "I", "J", "K", "L", "M",
      "N", "O", "P", "Q", "R", "S", "T", "U", "V", "W", "X", "Y", "Z">>

Digits == {"0", "1", "2", "3", "4", "5", "6", "7", "8", "9"}

\* The characters \w matches (the regular expressions carry no u or i flag).
WordChars ==
    {LowerCaseLetters[k] : k \in 1..26} \cup {UpperCaseLetters[k] : k \in 1..26}
        \cup Digits \cup {"_"}

\* String.prototype.toLowerCase on the characters of the model: an ASCII
\* capital becomes its small letter, every other character stays.
UpperToLower ==
    [c \in {UpperCaseLetters[k] : k \in 1..26} |->
        LowerCaseLetters[CHOOSE k \in 1..26 : UpperCaseLetters[k] = c]]

toLowerCase_Identity(s) == s

toLowerCase(s) ==
    [i \in 1..Len(s) |->
        IF s[i] \in DOMAIN UpperToLower THEN UpperToLower[s[i]] ELSE s[i]]

\* \b at offset p (between character p and character p + 1) of s.
IsWordCharAt(s, k) == k \in 1..Len(s) /\ s[k] \in WordChars

AtWordBoundary_Always(s, p) == TRUE

AtWordBoundary(s, p) == IsWordCharAt(s, p) # IsWordCharAt(s, p + 1)

\* The literal lit occurs in s right after offset p.
LiteralAt(s, p, lit) ==
    /\ p + Len(lit) <= Len(s)
    /\ \A k \in 1..Len(lit) : s[p + k] = lit[k]

WordRunThenBoundary_ToEnd(s, q) == \A k \in (q + 1)..Len(s) : s[k] \in WordChars

\* \w*\b right after offset q: some run of \w characters ends at a boundary.
WordRunThenBoundary(s, q) ==
    \E r \in q..Len(s) :
        /\ \A k \in (q + 1)..r : s[k] \in WordChars
        /\ AtWordBoundary(s, r)

\* An alternative of a pattern: a literal stem, the literal endings that may
\* follow it, and whether \w* follows.
Alt(stem, endings, anySuffix) ==
    [stem |-> stem, endings |-> endings, anySuffix |-> anySuffix]

\* /\b(evaluat|validat|verif|check)\w*\b/
EvaluatingPattern ==
    {Alt(<<"e", "v", "a", "l", "u", "a", "t">>, {<<>>}, TRUE),
     Alt(<<"v", "a", "l", "i", "d", "a", "t">>, {<<>>}, TRUE),
     Alt(<<"v", "e", "r", "i", "f">>, {<<>>}, TRUE),
     Alt(<<"c", "h", "e", "c", "k">>, {<<>>}, TRUE)}

ExecutingPattern_AnySuffix ==
    {Alt(<<"e", "x", "e", "c", "u", "t">>, {<<>>}, TRUE),
     Alt(<<"i", "m", "p", "l", "e", "m", "e", "n", "t">>, {<<>>}, TRUE),
     Alt(<<"w", "r", "i", "t">>, {<<>>}, TRUE)}

\* /\b(execut\w*|implement(?:ing|ed)?|writ(?:ing|e|ten))\b/
ExecutingPattern ==
    {Alt(<<"e", "x", "e", "c", "u", "t">>, {<<>>}, TRUE),
     Alt(<<"i", "m", "p", "l", "e", "m", "e", "n", "t">>,
         {<<>>, <<"i", "n", "g">>, <<"e", "d">>}, FALSE),
     Alt(<<"w", "r", "i", "t">>, {<<"i", "n", "g">>, <<"e">>, <<"t", "e", "n">>}, FALSE)}

\* /\b(decid|choos|select|determin)\w*\b/
DecidingPattern ==
    {Alt(<<"d", "e", "c", "i", "d">>, {<<>>}, TRUE),
     Alt(<<"c", "h", "o", "o", "s">>, {<<>>}, TRUE),
     Alt(<<"s", "e", "l", "e", "c", "t">>, {<<>>}, TRUE),
     Alt(<<"d", "e", "t", "e", "r", "m", "i", "n">>, {<<>>}, TRUE)}

\* /\b(plan\w*|design|approach|strateg)\w*\b/
PlanningPattern ==
    {Alt(<<"p", "l", "a", "n">>, {<<>>}, TRUE),
     Alt(<<"d", "e", "s", "i", "g", "n">>, {<<>>}, TRUE),
     Alt(<<"a", "p", "p", "r", "o", "a", "c", "h">>, {<<>>}, TRUE),
     Alt(<<"s", "t", "r", "a", "t", "e", "g">>, {<<>>}, TRUE)}

\* The alternative matches s from offset p on, up to the pattern's final \b.
AltMatchesAt(alt, s, p) ==
    \E ending \in alt.endings :
        /\ LiteralAt(s, p, alt.stem \o ending)
        /\ IF alt.anySuffix
           THEN WordRunThenBoundary(s, p + Len(alt.stem) + Len(ending))
           ELSE AtWordBoundary(s, p + Len(alt.stem) + Len(ending))

\* RegExp.prototype.test: a match of \b(alternatives)...\b starting anywhere.
Test(pattern, s) ==
    \E p \in 0..Len(s) :
        /\ AtWordBoundary(s, p)
        /\ \E alt \in pattern : AltMatchesAt(alt, s, p)

detectReasoningStage_Unordered(t) ==
    LET lower == toLowerCase(t)
    IN  IF Test(PlanningPattern, lower) THEN PLANNING
        ELSE IF Test(DecidingPattern, lower) THEN DECIDING
        ELSE IF Test(ExecutingPattern, lower) THEN EXECUTING
        ELSE IF Test(EvaluatingPattern, lower) THEN EVALUATING
        ELSE ANALYZING

detectReasoningStage(t) ==
    LET lower == toLowerCase(t)
    IN  IF Test(EvaluatingPattern, lower) THEN EVALUATING
        ELSE IF Test(ExecutingPattern, lower) THEN EXECUTING
        ELSE IF Test(DecidingPattern, lower) THEN DECIDING
        ELSE IF Test(PlanningPattern, lower) THEN PLANNING
        ELSE ANALYZING

----------------------------------------------------------------------------
(* Calls of the classifier *)

MaxAppends == 2

\* Texts the classifier is first called with: the empty string and a sentence
\* of the classifier's tests.
SeedTexts ==
    {<<>>,
     <<"I", "'", "l", "l", " ", "p", "l", "a", "n", " ", "o", "u", "t", " ", "t", "h", "e", " ",
       "i", "m", "p", "l", "e", "m", "e", "n", "t", "a", "t", "i", "o", "n", " ", "s", "t", "e", "p", "s">>}

\* What a later call's text has more than the previous call's: a separator
\* or none, then one of these.
Fragments ==
    {
     <<"V", "e", "r", "i", "f", "y">>,
     <<"e", "x", "e", "c", "u", "t", "e">>,
     <<"i", "m", "p", "l", "e", "m", "e", "n", "t">>,
     <<"a", "t", "i", "o", "n">>,
     <<"w", "r", "i", "t", "e">>,
     <<"s">>,
     <<"d", "e", "c", "i", "d", "e">>,
     <<"p", "l", "a", "n">>,
     <<"e", "x", "p", "l", "a", "n", "a", "t", "i", "o", "n">>,
     <<"é">>
    }

Separators == {<<>>, <<" ">>}

ClassifierIdle ==
    /\ text = <<>>
    /\ stage = ANALYZING
    /\ prevText = <<>>
    /\ prevStage = ANALYZING
    /\ appends = 0

----------------------------------------------------------------------------
(* The console: claudeStream, reasoningStart, thinkingStream, reasoningEnd, *)
(* toolStart, toolEnd, finishClaudeTurn (console-reasoning.ts).  Each takes  *)
(* the handler's state h (the two module flags, what has been written, and   *)
(* the handler's current stage) and gives the state after the call.          *)

Written(h, entry) == [h EXCEPT !.display = Append(@, entry)]

claudeStream_LabelEveryDelta(h, delta) ==
    Written(Written([h EXCEPT !.claudeTurnStarted = TRUE], [call |-> "claudeLabel"]),
            [call |-> "claudeStream", delta |-> delta])

claudeStream_SwallowsFirstDelta(h, delta) ==
    IF ~h.claudeTurnStarted
    THEN Written([h EXCEPT !.claudeTurnStarted = TRUE], [call |-> "claudeLabel"])
    ELSE Written(h, [call |-> "claudeStream", delta |-> delta])

\* if (!claudeTurnStarted) { write(label); claudeTurnStarted = true }
\* write(delta)
claudeStream(h, delta) ==
    LET h1 == IF ~h.claudeTurnStarted
              THEN Written([h EXCEPT !.claudeTurnStarted = TRUE],
                           [call |-> "claudeLabel"])
              ELSE h
    IN  Written(h1, [call |-> "claudeStream", delta |-> delta])

reasoningStart(h, st) ==
    Written([h EXCEPT !.reasoningBlockActive = TRUE],
            [call |-> "reasoningStart", stage |-> st])

thinkingStream_Silent(h, delta, st) == h

thinkingStream(h, delta, st) ==
    Written(h, [call |-> "thinkingStream", delta |-> delta, stage |-> st])

\* if (reasoningBlockActive) { console.log(); reasoningBlockActive = false }
reasoningEnd(h) ==
    IF h.reasoningBlockActive
    THEN Written([h EXCEPT !.reasoningBlockActive = FALSE],
                 [call |-> "reasoningEnd"])
    ELSE h

toolStart(h, toolName) == Written(h, [call |-> "toolStart", name |-> toolName])

toolEnd(h, toolName, success) ==
    Written(h, [call |-> "toolEnd", name |-> toolName, success |-> success])

finishClaudeTurn_KeepsReasoningBlock(h) ==
    IF h.claudeTurnStarted
    THEN Written([h EXCEPT !.claudeTurnStarted = FALSE], [call |-> "newline"])
    ELSE h

\* if (claudeTurnStarted) { console.log(); claudeTurnStarted = false }
\* reasoningBlockActive = false
finishClaudeTurn(h) ==
    LET h1 == IF h.claudeTurnStarted
              THEN Written([h EXCEPT !.claudeTurnStarted = FALSE],
                           [call |-> "newline"])
              ELSE h
    IN  [h1 EXCEPT !.reasoningBlockActive = FALSE]

----------------------------------------------------------------------------
(* Stream events and their handler: stream.on("streamEvent", ...) *)

MaxEvents == 3

\* Block indices of one message.
Indices == {0, 1}

\* The payloads of the text deltas: "Hello", " world".
TextPayloads ==
    {<<"H", "e", "l", "l", "o">>,
     <<" ", "w", "o", "r", "l", "d">>}

LetMePlanTheApproach ==
    <<"L", "e", "t", " ", "m", "e", " ", "p", "l", "a", "n", " ",
      "t", "h", "e", " ", "a", "p", "p", "r", "o", "a", "c", "h">>

NowLetsExecuteThis ==
    <<"n", "o", "w", " ", "l", "e", "t", "'", "s", " ", "e",
      "x", "e", "c", "u", "t", "e", " ", "t", "h", "i", "s">>

InMoreDetail ==
    <<" ", "i", "n", " ", "m", "o", "r", "e", " ", "d", "e", "t", "a", "i", "l">>

ThinkingPayloads == {LetMePlanTheApproach, NowLetsExecuteThis, InMoreDetail}

\* content_block of a content_block_start event: a block of either kind
\* starts empty.
StartBlocks ==
    {[type |-> "text", text |-> <<>>],
     [type |-> "thinking", thinking |-> <<>>],
     [type |-> "tool_use", name |-> "read_file"]}

Deltas ==
    {[type |-> "text_delta", text |-> p] : p \in TextPayloads}
        \cup {[type |-> "thinking_delta", thinking |-> p] : p \in ThinkingPayloads}
        \cup {[type |-> "input_json_delta"]}

StartEvents ==
    {[type |-> "content_block_start", index |-> i, content_block |-> cb] :
        i \in Indices, cb \in StartBlocks}

DeltaEvents ==
    {[type |-> "content_block_delta", index |-> i, delta |-> d] :
        i \in Indices, d \in Deltas}

\* A content_block_stop event carries the index only.
StopEvents == {[type |-> "content_block_stop", index |-> i] : i \in Indices}

NoEvent == [event |-> [type |-> "none"], anomalous |-> FALSE, mark |-> 0]

\* detectReasoningStage on the texts the handler passes to it.
StageOfPayload ==
    [p \in ThinkingPayloads \cup {<<>>} |-> detectReasoningStage(p)]

\* event.content_block?.type === "thinking"
StopIsThinking(event) ==
    "content_block" \in DOMAIN event /\ event.content_block.type = "thinking"

\* The state the handler and the console work on.
Handler ==
    [claudeTurnStarted |-> claudeTurnStarted,
     reasoningBlockActive |-> reasoningBlockActive,
     display |-> display,
     currentReasoningStage |-> currentReasoningStage]

\* case "thinking_delta": the stage is detected from the delta; a new stage
\* ends the reasoning display and starts it again; then the delta is shown.
OnThinkingDelta(h, thinking) ==
    LET newStage == StageOfPayload[thinking]
        h1 == IF newStage # h.currentReasoningStage
              THEN [reasoningStart(reasoningEnd(h), newStage)
                        EXCEPT !.currentReasoningStage = newStage]
              ELSE h
    IN  thinkingStream(h1, thinking, h1.currentReasoningStage)

OnThinkingStart_NoStage(h, thinking) == h

\* case "thinking" of content_block_start
OnThinkingStart(h, thinking) ==
    LET st == StageOfPayload[thinking]
    IN  [reasoningStart(h, st) EXCEPT !.currentReasoningStage = st]

streamEvent(h, event) ==
    CASE event.type = "content_block_start" ->
            (CASE event.content_block.type = "thinking" ->
                    OnThinkingStart(h, event.content_block.thinking)
               [] event.content_block.type = "tool_use" ->
                    toolStart(h, event.content_block.name)
               [] OTHER -> h)
      [] event.type = "content_block_delta" ->
            (CASE event.delta.type = "thinking_delta" ->
                    OnThinkingDelta(h, event.delta.thinking)
               [] event.delta.type = "text_delta" ->
                    claudeStream(h, event.delta.text)
               [] OTHER -> h)
      [] event.type = "content_block_stop" ->
            IF StopIsThinking(event) THEN reasoningEnd(h) ELSE h
      [] OTHER -> h

\* The kind of block a delta belongs to.
KindOfDelta(d) ==
    CASE d.type = "text_delta" -> "text"
      [] d.type = "thinking_delta" -> "thinking"
      [] OTHER -> "tool_use"

\* An event the protocol does not allow in the current state of its block
\* index: a delta or stop for a closed index, a delta of another kind than
\* the open block, a start for an open index.
Anomalous(event) ==
    CASE event.type = "content_block_start" -> open[event.index] # "closed"
      [] event.type = "content_block_delta" ->
            open[event.index] # KindOfDelta(event.delta)
      [] event.type = "content_block_stop" -> open[event.index] = "closed"
      [] OTHER -> FALSE

\* Closed -> Open(kind) -> Closed per index, anomalous events aside.
OpenAfter(event) ==
    IF Anomalous(event) THEN open
    ELSE CASE event.type = "content_block_start" ->
                [open EXCEPT ![event.index] = event.content_block.type]
           [] event.type = "content_block_stop" ->
                [open EXCEPT ![event.index] = "closed"]
           [] OTHER -> open

AccumulatedAfter(event) ==
    IF Anomalous(event) THEN accumulatedText
    ELSE CASE event.type = "content_block_start" ->
                [accumulatedText EXCEPT ![event.index] = <<>>]
           [] event.type = "content_block_delta"
                /\ event.delta.type = "thinking_delta" ->
                [accumulatedText EXCEPT ![event.index] = @ \o event.delta.thinking]
           [] OTHER -> accumulatedText

StartedToolsAfter(event) ==
    IF event.type = "content_block_start" /\ event.content_block.type = "tool_use"
    THEN Append(startedTools, event.content_block.name)
    ELSE startedTools

DisplayIdle ==
    /\ events = 0
    /\ open = [i \in Indices |-> "closed"]
    /\ accumulatedText = [i \in Indices |-> <<>>]
    /\ currentReasoningStage = "none"
    /\ claudeTurnStarted = FALSE
    /\ reasoningBlockActive = FALSE
    /\ display = <<>>
    /\ lastEvent = NoEvent
    /\ startedTools = <<>>
    /\ streamNo = 1
    /\ turnEnd = <<>>

----------------------------------------------------------------------------
(* Initial state: after `new Agent(...)`, at the first prompt *)

LoopIdle ==
    /\ conversation = <<>>
    /\ pc = "AwaitingInput"
    /\ outstanding = 0
    /\ streamBlocks = <<>>
    /\ convAtRequest = <<>>
    /\ toolIdx = 0
    /\ running = {}
    /\ toolsResults = <<>>
    /\ dispatched = <<>>
    /\ executed = <<>>
    /\ settled = <<>>
    /\ errorsShown = 0
    /\ turnAborted = FALSE
    /\ nextId = 1
    /\ lines = 0
    /\ requests = 0
    /\ rlOpen = TRUE
    /\ lastStep = "init"
    /\ thinkingShown = 0

Init == LoopIdle /\ ClassifierIdle /\ DisplayIdle

----------------------------------------------------------------------------
(* The loop's steps *)

\* AwaitingInput: one line of user input becomes a user turn.
ReadUserInput ==
    /\ pc = "AwaitingInput"
    /\ rlOpen
    /\ lines < MaxLines
    /\ \E line \in UserLines :
         conversation' = AppendTurn(conversation, UserTurn(<<TextBlock(line)>>))
    /\ pc' = "Requesting"
    /\ lines' = lines + 1
    /\ turnAborted' = FALSE
    /\ lastStep' = "ReadUserInput"
    /\ thinkingShown' = 0
    /\ UNCHANGED <<classifierVars, displayVars>>
    /\ UNCHANGED <<outstanding, streamBlocks, convAtRequest, toolIdx, running,
                   toolsResults, dispatched, executed, settled, errorsShown,
                   nextId, requests, rlOpen>>

\* Requesting: client.messages.stream({messages: conversation, tools}).
IssueRequest ==
    /\ pc = "Requesting"
    /\ requests < MaxRequests
    /\ outstanding' = outstanding + 1
    /\ requests' = requests + 1
    /\ convAtRequest' = conversation
    /\ streamBlocks' = <<>>
    /\ pc' = "Streaming"
    /\ thinkingShown' = 0
    /\ lastStep' = "IssueRequest"
    /\ UNCHANGED <<classifierVars, displayVars>>
    /\ UNCHANGED <<conversation, toolIdx, running, toolsResults, dispatched,
                   executed, settled, errorsShown, turnAborted, nextId, lines,
                   rlOpen>>

\* Streaming: the service finalizes one more content block of the message.
StreamBlock ==
    /\ pc = "Streaming"
    /\ outstanding > 0
    /\ Len(streamBlocks) < MaxBlocks
    /\ \/ /\ \E b \in {TextBlock("text"), ThinkingBlock("thought")} :
               streamBlocks' = Append(streamBlocks, b)
          /\ UNCHANGED nextId
       \/ /\ nextId <= MaxToolUses
          /\ \E use \in RequestedToolUses :
               streamBlocks' = Append(streamBlocks, ToolUseBlock(nextId, use[1], use[2]))
          /\ nextId' = nextId + 1
    /\ lastStep' = "StreamBlock"
    /\ thinkingShown' = 0
    /\ UNCHANGED <<classifierVars, displayVars>>
    /\ UNCHANGED <<conversation, pc, outstanding, convAtRequest, toolIdx,
                   running, toolsResults, dispatched, executed, settled,
                   errorsShown, turnAborted, lines, requests, rlOpen>>

\* Streaming: `await stream.finalMessage()` resolves; the assistant turn is
\* appended and the loop decides between Dispatching and AwaitingInput.
StreamComplete ==
    /\ pc = "Streaming"
    /\ outstanding > 0
    /\ LET turn == AssistantTurn(HistoryBlocks(streamBlocks))
       IN  /\ conversation' = AppendTurn(conversation, turn)
           /\ pc' = NextPhase(turn)
    /\ outstanding' = outstanding - 1
    /\ streamBlocks' = <<>>
    /\ toolIdx' = 0
    /\ toolsResults' = <<>>
    /\ thinkingShown' = Len(SelectSeq(streamBlocks, LAMBDA b : b.type = "thinking"))
    /\ lastStep' = "StreamComplete"
    /\ UNCHANGED <<classifierVars, displayVars>>
    /\ UNCHANGED <<convAtRequest, running, dispatched, executed, settled,
                   errorsShown, turnAborted, nextId, lines, requests, rlOpen>>

TransportError_DropsTurn ==
    /\ pc = "Streaming"
    /\ outstanding > 0
    /\ outstanding' = outstanding - 1
    /\ streamBlocks' = <<>>
    /\ errorsShown' = errorsShown + 1
    /\ turnAborted' = TRUE
    /\ conversation' = SubSeq(conversation, 1, Len(conversation) - 1)
    /\ pc' = "AwaitingInput"
    /\ lastStep' = "TransportError"
    /\ thinkingShown' = 0
    /\ UNCHANGED <<classifierVars, displayVars>>
    /\ UNCHANGED <<convAtRequest, toolIdx, running, toolsResults, dispatched,
                   executed, settled, nextId, lines, requests, rlOpen>>

\* Requesting/Streaming: the request or its stream fails.
TransportError ==
    /\ pc = "Streaming"
    /\ outstanding > 0
    /\ outstanding' = outstanding - 1
    /\ streamBlocks' = <<>>
    /\ errorsShown' = errorsShown + 1
    /\ turnAborted' = TRUE
    /\ IF RunCatchesTransportError
       THEN pc' = "AwaitingInput" /\ rlOpen' = rlOpen
       ELSE pc' = "Ended" /\ rlOpen' = FALSE
    /\ lastStep' = "TransportError"
    /\ thinkingShown' = 0
    /\ UNCHANGED <<classifierVars, displayVars>>
    /\ UNCHANGED <<conversation, convAtRequest, toolIdx, running, toolsResults,
                   dispatched, executed, settled, nextId, lines, requests>>

\* Dispatching: the loop reaches the next tool_use block of the assistant
\* turn; an unregistered name is answered at once, and so is an input that
\* did not parse; otherwise the registered tool's Execute is invoked.
DispatchNext ==
    /\ pc = "Dispatching"
    /\ CanStartNext
    /\ toolIdx < Len(Pending)
    /\ LET block == Pending[toolIdx + 1]
       IN  /\ dispatched' = Append(dispatched, block.id)
           /\ IF block.name \notin Registry
              THEN /\ toolsResults' =
                        Append(toolsResults,
                               ToolResultBlock(block, "", NotFoundMessage(block.name)))
                   /\ UNCHANGED <<running, executed>>
              ELSE IF ~block.input.ok
              THEN /\ toolsResults' =
                        Append(toolsResults,
                               ToolResultBlock(block, "", block.input.message))
                   /\ UNCHANGED <<running, executed>>
              ELSE /\ running' = running \cup {block.id}
                   /\ executed' = Append(executed, block.id)
                   /\ UNCHANGED toolsResults
    /\ toolIdx' = toolIdx + 1
    /\ lastStep' = "DispatchNext"
    /\ thinkingShown' = 0
    /\ UNCHANGED <<classifierVars, displayVars>>
    /\ UNCHANGED <<conversation, pc, outstanding, streamBlocks, convAtRequest,
                   settled, errorsShown, turnAborted, nextId, lines, requests,
                   rlOpen>>

\* Dispatching: a running Execute resolves or rejects; its outcome is pushed.
ToolSettles ==
    /\ pc = "Dispatching"
    /\ \E id \in running, s \in Settlements :
         LET block == CHOOSE b \in {Pending[i] : i \in 1..Len(Pending)} : b.id = id
             out == ExecuteOutcome(s)
         IN  /\ toolsResults' =
                   Append(toolsResults, ToolResultBlock(block, out[1], out[2]))
             /\ settled' = Append(settled, [id |-> id, how |-> s])
             /\ running' = running \ {id}
    /\ lastStep' = "ToolSettles"
    /\ thinkingShown' = 0
    /\ UNCHANGED <<classifierVars, displayVars>>
    /\ UNCHANGED <<conversation, pc, outstanding, streamBlocks, convAtRequest,
                   toolIdx, dispatched, executed, errorsShown, turnAborted,
                   nextId, lines, requests, rlOpen>>

\* Dispatching: every block has its outcome; the results become a user turn
\* and the model is asked again.
FinishDispatch ==
    /\ pc = "Dispatching"
    /\ toolIdx = Len(Pending)
    /\ running = {}
    /\ conversation' = AppendTurn(conversation, UserTurn(toolsResults))
    /\ pc' = "Requesting"
    /\ lastStep' = "FinishDispatch"
    /\ thinkingShown' = 0
    /\ UNCHANGED <<classifierVars, displayVars>>
    /\ UNCHANGED <<outstanding, streamBlocks, convAtRequest, toolIdx, running,
                   toolsResults, dispatched, executed, settled, errorsShown,
                   turnAborted, nextId, lines, requests, rlOpen>>

\* The user ends the input at the prompt; agent.run() returns or rejects and
\* main's catch/finally runs: the error, if any, is printed and rl is closed.
UserEndsInput ==
    /\ pc = "AwaitingInput"
    /\ rlOpen
    /\ \E threw \in BOOLEAN :
         errorsShown' = IF threw THEN errorsShown + 1 ELSE errorsShown
    /\ rlOpen' = FALSE
    /\ pc' = "Ended"
    /\ lastStep' = "UserEndsInput"
    /\ thinkingShown' = 0
    /\ UNCHANGED <<classifierVars, displayVars>>
    /\ UNCHANGED <<conversation, outstanding, streamBlocks, convAtRequest,
                   toolIdx, running, toolsResults, dispatched, executed, settled,
                   turnAborted, nextId, lines, requests>>

Next ==
    \/ ReadUserInput
    \/ IssueRequest
    \/ StreamBlock
    \/ StreamComplete
    \/ TransportError
    \/ DispatchNext
    \/ ToolSettles
    \/ FinishDispatch
    \/ UserEndsInput

Spec == Init /\ [][Next]_vars

----------------------------------------------------------------------------
(* The loop under the assumptions of its termination argument: every       *)
(* request and every tool execution completes, and the model stops calling *)
(* tools                                                                    *)

\* The model's side of the assumption, within the bounds: the last request
\* the bounds allow is answered without a tool_use block.
ModelStopsCallingTools ==
    (Len(streamBlocks') > Len(streamBlocks)
        /\ IsToolUse(streamBlocks'[Len(streamBlocks')]))
      => requests < MaxRequests

\* A user line is read only while the bounds allow the request it needs.
\* No request fails: TransportError is no step of this specification.
RequestAvailable == requests < MaxRequests

NextLive ==
    \/ (ReadUserInput /\ RequestAvailable)
    \/ IssueRequest
    \/ (StreamBlock /\ ModelStopsCallingTools)
    \/ StreamComplete
    \/ DispatchNext
    \/ ToolSettles
    \/ FinishDispatch
    \/ UserEndsInput

\* The loop runs on when it can (it is one thread that only waits for the
\* user, the stream and a tool), a request in flight completes and a
\* running tool settles.  Nothing makes the user type.
SpecLive ==
    /\ Init
    /\ [][NextLive]_vars
    /\ WF_vars(IssueRequest)
    /\ WF_vars(StreamComplete)
    /\ WF_vars(DispatchNext)
    /\ WF_vars(ToolSettles)
    /\ WF_vars(FinishDispatch)

----------------------------------------------------------------------------
(* The classifier called on texts that grow, as a thinking block's text does *)

InitClassify ==
    /\ LoopIdle
    /\ DisplayIdle
    /\ text \in SeedTexts
    /\ stage = detectReasoningStage(text)
    /\ prevText = text
    /\ prevStage = stage
    /\ appends = 0

\* The next call's text is the previous one with more text at its end.
ClassifyLonger ==
    /\ appends < MaxAppends
    /\ \E sep \in Separators, w \in Fragments : text' = text \o sep \o w
    /\ stage' = detectReasoningStage(text')
    /\ prevText' = text
    /\ prevStage' = stage
    /\ appends' = appends + 1
    /\ UNCHANGED <<loopVars, displayVars>>

\* The same text is classified once more.
ClassifyAgain ==
    /\ stage' = detectReasoningStage(text)
    /\ prevText' = text
    /\ prevStage' = stage
    /\ UNCHANGED <<text, appends, loopVars, displayVars>>

NextClassify ==
    \/ ClassifyLonger
    \/ ClassifyAgain

SpecClassify == InitClassify /\ [][NextClassify]_vars

----------------------------------------------------------------------------
(* The display of one user turn: the stream events of its requests *)

\* The handler runs on one stream event.
Handle(event) ==
    LET h == streamEvent(Handler, event)
    IN  /\ events < MaxEvents
        /\ events' = events + 1
        /\ claudeTurnStarted' = h.claudeTurnStarted
        /\ reasoningBlockActive' = h.reasoningBlockActive
        /\ display' = h.display
        /\ currentReasoningStage' = h.currentReasoningStage
        /\ lastEvent' = [event |-> event, anomalous |-> Anomalous(event),
                         mark |-> Len(display)]
        /\ open' = OpenAfter(event)
        /\ accumulatedText' = AccumulatedAfter(event)
        /\ startedTools' = StartedToolsAfter(event)
        /\ UNCHANGED <<streamNo, turnEnd, loopVars, classifierVars>>

ContentBlockStart == \E event \in StartEvents : Handle(event)

ContentBlockDelta == \E event \in DeltaEvents : Handle(event)

ContentBlockStop == \E event \in StopEvents : Handle(event)

\* The message is complete and has tool_use blocks: the tools run, their
\* outcome is shown, and the next request's stream follows in the same turn.
RECURSIVE ToolsEnd(_, _, _)
ToolsEnd(h, names, success) ==
    IF names = <<>> THEN h
    ELSE ToolsEnd(toolEnd(h, Head(names), success[1]), Tail(names), Tail(success))

StreamEndsWithToolUse ==
    /\ startedTools # <<>>
    /\ \E success \in [1..Len(startedTools) -> BOOLEAN] :
         display' = ToolsEnd(Handler, startedTools, success).display
    /\ startedTools' = <<>>
    /\ streamNo' = streamNo + 1
    /\ open' = [i \in Indices |-> "closed"]
    /\ accumulatedText' = [i \in Indices |-> <<>>]
    /\ lastEvent' = [NoEvent EXCEPT !.mark = Len(display)]
    /\ UNCHANGED <<events, currentReasoningStage, claudeTurnStarted,
                   reasoningBlockActive, turnEnd, loopVars, classifierVars>>

\* The message is complete and has no tool_use block: the turn is finished
\* and the user is prompted; what follows is the next turn's display.
FinishTurn ==
    /\ startedTools = <<>>
    /\ LET h == finishClaudeTurn(Handler)
       IN  /\ claudeTurnStarted' = h.claudeTurnStarted
           /\ reasoningBlockActive' = h.reasoningBlockActive
           /\ turnEnd' = SubSeq(h.display, Len(display) + 1, Len(h.display))
    /\ display' = <<>>
    /\ streamNo' = 1
    /\ open' = [i \in Indices |-> "closed"]
    /\ accumulatedText' = [i \in Indices |-> <<>>]
    /\ lastEvent' = NoEvent
    /\ UNCHANGED <<events, currentReasoningStage, startedTools, loopVars,
                   classifierVars>>

NextStream ==
    \/ ContentBlockStart
    \/ ContentBlockDelta
    \/ ContentBlockStop
    \/ StreamEndsWithToolUse
    \/ FinishTurn

SpecStream == Init /\ [][NextStream]_vars

----------------------------------------------------------------------------
(* Vocabulary of the properties, written display on the conversation itself *)

IsPrefix(s, t) == Len(s) <= Len(t) /\ \A i \in 1..Len(s) : s[i] = t[i]

ContentOf(turn) == {turn.content[j] : j \in 1..Len(turn.content)}

\* The ids of a turn's tool_use blocks, in the order of its content.
ToolUseIdSeq(turn) ==
    LET tu == SelectSeq(turn.content, LAMBDA b : b.type = "tool_use")
    IN  [j \in 1..Len(tu) |-> tu[j].id]

CountToolUse(turn) == Len(ToolUseIdSeq(turn))

\* The ids of the tool_use blocks of the first n turns, in order.
RECURSIVE IdsUpTo(_)
IdsUpTo(n) ==
    IF n = 0 THEN <<>>
    ELSE IdsUpTo(n - 1) \o
           (IF conversation[n].role = "assistant"
            THEN ToolUseIdSeq(conversation[n]) ELSE <<>>)

\* Every tool_result block recorded so far: in the conversation, or pushed
\* by the dispatch phase in progress.
RecordedResults ==
    UNION {{b \in ContentOf(conversation[i]) : b.type = "tool_result"} :
             i \in 1..Len(conversation)}
      \cup (IF pc = "Dispatching"
            THEN {toolsResults[j] : j \in 1..Len(toolsResults)} ELSE {})

RecordedIds == {b.tool_use_id : b \in RecordedResults}

\* Every tool_use block of the conversation's assistant turns.
AllToolUseBlocks ==
    UNION {{b \in ContentOf(conversation[i]) : b.type = "tool_use"} :
             i \in 1..Len(conversation)}

SeqToSet(s) == {s[i] : i \in 1..Len(s)}

----------------------------------------------------------------------------
(* C1: every tool_result block of the conversation sits in a user turn that
   immediately follows an assistant turn, and its tool_use_id is the id of
   exactly one tool_use block of that assistant turn. *)
C1_ToolResultMatchesPrecedingToolUse ==
    \A i \in 1..Len(conversation) :
      \A b \in ContentOf(conversation[i]) :
        b.type = "tool_result" =>
          /\ conversation[i].role = "user"
          /\ i > 1
          /\ conversation[i - 1].role = "assistant"
          /\ Cardinality({j \in 1..Len(conversation[i - 1].content) :
                 /\ conversation[i - 1].content[j].type = "tool_use"
                 /\ conversation[i - 1].content[j].id = b.tool_use_id}) = 1

\* A user turn carrying two tool_result blocks has been appended.
C1_Witness ==
    \E i \in 1..Len(conversation) :
      /\ conversation[i].role = "user"
      /\ Len(conversation[i].content) = 2
      /\ \A b \in ContentOf(conversation[i]) : b.type = "tool_result"

(* C2: after an assistant turn is appended the loop is in Dispatching iff the
   turn has a tool_use block, and otherwise in AwaitingInput; Dispatching is
   only ever left for Requesting; and a user line is read only at the start,
   after an assistant turn without tool_use, or after a transport error. *)
C2_LoopDecision ==
    /\ [](lastStep = "StreamComplete" =>
            /\ LastTurn.role = "assistant"
            /\ (pc = "Dispatching") <=> (CountToolUse(LastTurn) > 0)
            /\ (CountToolUse(LastTurn) = 0) => (pc = "AwaitingInput"))
    /\ [][(pc = "Dispatching" /\ pc' # "Dispatching") => pc' = "Requesting"]_vars
    /\ [][(lines' # lines) =>
            \/ conversation = <<>>
            \/ turnAborted
            \/ (LastTurn.role = "assistant" /\ CountToolUse(LastTurn) = 0)]_vars

\* One user line, a turn with a tool call, its results, then a final answer.
C2_Witness ==
    /\ lastStep = "StreamComplete"
    /\ pc = "AwaitingInput"
    /\ lines = 1
    /\ Len(conversation) = 4
    /\ CountToolUse(conversation[2]) > 0

(* C3: at most one tool execution is in progress, dispatch follows the stream
   order of the tool_use blocks, and a block's dispatch begins only when the
   outcome of every block before it is recorded. *)
C3_SequentialDispatch ==
    /\ Cardinality(running) <= 1
    /\ IsPrefix(dispatched, IdsUpTo(Len(conversation)))
    /\ \A k \in 1..(Len(dispatched) - 1) : dispatched[k] \in RecordedIds
    /\ running \subseteq
         (IF dispatched = <<>> THEN {} ELSE {dispatched[Len(dispatched)]})

\* The second of two registered tools of one turn is executing.
C3_Witness ==
    /\ pc = "Dispatching"
    /\ CountToolUse(LastTurn) = 2
    /\ Len(executed) = 2
    /\ running # {}

(* C4: the user turn appended after an assistant turn with tool_use blocks
   holds exactly one tool_result per tool_use block, the i-th result carrying
   the id of the i-th tool_use. *)
C4_OneResultPerToolUseInOrder ==
    \A i \in 1..Len(conversation) :
      (conversation[i].role = "assistant" /\ CountToolUse(conversation[i]) > 0
         /\ i < Len(conversation)) =>
        LET results == conversation[i + 1].content
            ids == ToolUseIdSeq(conversation[i])
        IN  /\ conversation[i + 1].role = "user"
            /\ Len(results) = Len(ids)
            /\ \A j \in 1..Len(results) :
                 /\ results[j].type = "tool_result"
                 /\ results[j].tool_use_id = ids[j]

\* Results of a two-tool turn are in the conversation, one of them a failure.
C4_Witness ==
    /\ lastStep = "FinishDispatch"
    /\ Len(LastTurn.content) = 2
    /\ \E b \in ContentOf(LastTurn) : b.type = "tool_result" /\ b.is_error
    /\ \E b \in ContentOf(LastTurn) : b.type = "tool_result" /\ ~b.is_error

(* C5: a rejected Execute gives a tool_result with is_error true and the
   failure message as content, no fault leaves the dispatcher, and the loop
   goes on to the next request. *)
C5_RejectedExecuteIsError ==
    /\ \A k \in 1..Len(settled) :
         settled[k].how.kind = "rejected" =>
           \E b \in RecordedResults :
             /\ b.tool_use_id = settled[k].id
             /\ b.is_error
             /\ b.content = settled[k].how.message
    /\ lastStep = "ToolSettles" => (pc = "Dispatching" /\ rlOpen)
    /\ lastStep = "FinishDispatch" => pc = "Requesting"

\* The same with the failure message required to be non-empty: what the
\* quoted code does guarantee.
C5_RejectedWithMessageIsError ==
    /\ \A k \in 1..Len(settled) :
         (settled[k].how.kind = "rejected" /\ settled[k].how.message # "") =>
           \E b \in RecordedResults :
             /\ b.tool_use_id = settled[k].id
             /\ b.is_error
             /\ b.content = settled[k].how.message
    /\ lastStep = "ToolSettles" => (pc = "Dispatching" /\ rlOpen)
    /\ lastStep = "FinishDispatch" => pc = "Requesting"

(* C6: a tool_use block with an unregistered name gets the outcome
   {is_error: true, content: "tool not found: <name>"}, no Execute is called
   for it, nothing is thrown, and the loop goes on to the next request with
   the result in the conversation. *)
C6_ToolNotFound ==
    /\ \A b \in AllToolUseBlocks :
         b.name \notin Registry =>
           /\ b.id \notin SeqToSet(executed)
           /\ b.id \notin running
           /\ b.id \in SeqToSet(dispatched) =>
                [type |-> "tool_result", tool_use_id |-> b.id,
                 content |-> "tool not found: " \o b.name,
                 is_error |-> TRUE] \in RecordedResults
    /\ lastStep = "DispatchNext" => (pc = "Dispatching" /\ rlOpen)
    /\ lastStep = "FinishDispatch" =>
         /\ pc = "Requesting"
         /\ LastTurn = [role |-> "user", content |-> toolsResults]
         /\ requests < MaxRequests => ENABLED IssueRequest

\* The request after the dispatch of "frobnicate" is in flight, the
\* diagnostic being the last turn of the conversation it carries.
C6_Witness ==
    /\ lastStep = "IssueRequest"
    /\ pc = "Streaming"
    /\ LastTurn.role = "user"
    /\ \E b \in ContentOf(LastTurn) :
         /\ b.type = "tool_result"
         /\ b.is_error
         /\ b.content = "tool not found: frobnicate"

(* C7: a failed request or stream, in the first or a later cycle of a user
   turn, surfaces the error, returns the loop to AwaitingInput and leaves the
   conversation exactly as it was when the request was issued. *)
C7_TransportErrorLeavesConversation ==
    [][(pc = "Streaming" /\ lastStep' = "TransportError") =>
         /\ pc' = "AwaitingInput"
         /\ conversation' = convAtRequest
         /\ conversation' = conversation
         /\ errorsShown' = errorsShown + 1
         /\ streamBlocks' = <<>>]_vars

\* A request of a later cycle failed after a tool_use block of it had been
\* streamed: its id was issued and is in no turn of the conversation.
C7_Witness ==
    /\ lastStep = "TransportError"
    /\ Len(conversation) = 3
    /\ LastTurn.role = "user"
    /\ Len(IdsUpTo(Len(conversation))) < nextId - 1

(* C8: a transport error never ends the process: after it the loop is at the
   prompt with readline open and can read a line; readline is closed only
   when the user ends the input. *)
C8_TransportErrorKeepsProcess ==
    /\ [](lastStep = "TransportError" =>
            /\ rlOpen
            /\ pc = "AwaitingInput"
            /\ lines < MaxLines => ENABLED ReadUserInput)
    /\ [](pc = "Ended" <=> ~rlOpen)
    /\ [][(rlOpen /\ ~rlOpen') =>
            (pc = "AwaitingInput" /\ lastStep' = "UserEndsInput")]_vars

\* After a failed request the user entered a new line and a new request is
\* in flight.
C8_Witness ==
    /\ errorsShown > 0
    /\ turnAborted = FALSE
    /\ lines = 2
    /\ pc = "Streaming"
    /\ rlOpen

(* C9: the conversation is append-only: every step leaves the turns it had
   in place and unchanged. *)
C9_AppendOnly == [][IsPrefix(conversation, conversation')]_vars

\* User input, a dispatch cycle, a failed request and a second user line
\* have all happened.
C9_Witness ==
    /\ errorsShown > 0
    /\ lines = 2
    /\ Len(dispatched) > 0
    /\ Len(conversation) >= 4

(* C10: at most one inference request is outstanding, none while a tool
   executes or the loop waits for a user line; while a request is in flight
   only the service's steps are possible, and while a tool executes only its
   settling is. *)
C10_OneOutstandingRequest ==
    /\ outstanding <= 1
    /\ running # {} => outstanding = 0
    /\ pc = "AwaitingInput" => outstanding = 0
    /\ (outstanding > 0) <=> (pc = "Streaming")
    /\ outstanding > 0 =>
         ~ENABLED (ReadUserInput \/ IssueRequest \/ DispatchNext \/ ToolSettles
                     \/ FinishDispatch \/ UserEndsInput)
    /\ running # {} =>
         ~ENABLED (ReadUserInput \/ IssueRequest \/ StreamBlock \/ StreamComplete
                     \/ TransportError \/ DispatchNext \/ FinishDispatch
                     \/ UserEndsInput)

\* A request is in flight after a dispatch phase.
C10_Witness ==
    /\ outstanding = 1
    /\ Len(conversation) >= 3
    /\ Len(executed) > 0

----------------------------------------------------------------------------
(* Vocabulary of the properties about the display *)

IsThinkingDelta(event) ==
    event.type = "content_block_delta" /\ event.delta.type = "thinking_delta"

IsTextDelta(event) ==
    event.type = "content_block_delta" /\ event.delta.type = "text_delta"

\* What the last event handled wrote.
EmittedByLast == SubSeq(display, lastEvent.mark + 1, Len(display))

----------------------------------------------------------------------------
\* C11: on each thinking delta of an open thinking block the stage shown for
\* the payload is the classification of the whole text accumulated in the
\* block, the new payload included.
C11_ClassifiesAccumulatedText ==
    (IsThinkingDelta(lastEvent.event) /\ ~lastEvent.anomalous) =>
        /\ display # <<>>
        /\ display[Len(display)].call = "thinkingStream"
        /\ display[Len(display)].stage =
               detectReasoningStage(accumulatedText[lastEvent.event.index])

----------------------------------------------------------------------------
\* The text the display shows as the assistant's answer: the payloads written
\* by claudeStream, in order, joined.
RECURSIVE ShownText(_)
ShownText(d) ==
    IF d = <<>> THEN <<>>
    ELSE (IF Head(d).call = "claudeStream" THEN Head(d).delta ELSE <<>>)
             \o ShownText(Tail(d))

TextEntries(d) == SelectSeq(d, LAMBDA e : e.call = "claudeStream")

\* C12: every delta of an open text block is written at once, by the step that
\* handles it, as one entry carrying exactly its payload, after everything
\* written before; so the text shown is the deltas joined in arrival order.
C12_TextDeltaForwarded ==
    [][(events' = events + 1 /\ IsTextDelta(lastEvent'.event)
            /\ ~lastEvent'.anomalous) =>
        /\ IsPrefix(display, display')
        /\ TextEntries(SubSeq(display', Len(display) + 1, Len(display'))) =
               <<[call |-> "claudeStream", delta |-> lastEvent'.event.delta.text]>>
        /\ ShownText(display') = ShownText(display) \o lastEvent'.event.delta.text
      ]_vars

\* "Hello" then " world" on one text block are shown as "Hello world".
C12_Witness ==
    /\ IsTextDelta(lastEvent.event)
    /\ ~lastEvent.anomalous
    /\ Len(TextEntries(display)) = 2
    /\ ShownText(display) =
           <<"H", "e", "l", "l", "o", " ", "w", "o", "r", "l", "d">>

----------------------------------------------------------------------------
\* C13 as stated: an anomalous stream event (a delta or stop for an index
\* with no open block, a delta of another kind than the open block, a start
\* for an open index) writes nothing.
C13_AnomalousEventDropped ==
    lastEvent.anomalous => Len(display) = lastEvent.mark

\* C13: an anomalous stream event is handled by its type alone, as any other
\* event of that type: a text or thinking delta is shown, a thinking or
\* tool_use start begins its display, the other events write nothing; and the
\* handler takes the next event.
C13_AnomalousEventHandledByType ==
    lastEvent.anomalous =>
        LET e == lastEvent.event
            emitted == EmittedByLast
        IN  /\ IsTextDelta(e) =>
                 /\ emitted # <<>>
                 /\ emitted[Len(emitted)] =
                        [call |-> "claudeStream", delta |-> e.delta.text]
            /\ IsThinkingDelta(e) =>
                 /\ emitted # <<>>
                 /\ emitted[Len(emitted)] =
                        [call |-> "thinkingStream", delta |-> e.delta.thinking,
                         stage |-> currentReasoningStage]
            /\ (e.type = "content_block_start" /\ e.content_block.type = "thinking") =>
                 emitted = <<[call |-> "reasoningStart",
                              stage |-> currentReasoningStage]>>
            /\ (e.type = "content_block_start" /\ e.content_block.type = "tool_use") =>
                 emitted = <<[call |-> "toolStart", name |-> e.content_block.name]>>
            /\ (\/ e.type = "content_block_stop"
                \/ (e.type = "content_block_start" /\ e.content_block.type = "text")
                \/ (e.type = "content_block_delta"
                      /\ e.delta.type = "input_json_delta")) =>
                 emitted = <<>>
            /\ events < MaxEvents =>
                 (ENABLED ContentBlockStart /\ ENABLED ContentBlockDelta
                    /\ ENABLED ContentBlockStop)

\* A thinking delta for an index with no open block has been shown, in a
\* turn in which a text delta was shown too.
C13_Witness ==
    /\ lastEvent.anomalous
    /\ IsThinkingDelta(lastEvent.event)
    /\ open[lastEvent.event.index] = "closed"
    /\ EmittedByLast # <<>>
    /\ \E k \in 1..Len(display) : display[k].call = "claudeStream"

----------------------------------------------------------------------------
LabelPositions == {k \in 1..Len(display) : display[k].call = "claudeLabel"}

TextPositions == {k \in 1..Len(display) : display[k].call = "claudeStream"}

----------------------------------------------------------------------------
\* One thinking block has started and received "Let me plan the approach"
\* and then "now let's execute this", and nothing else has happened.
ScenarioD ==
    /\ events = 3
    /\ \E i \in Indices :
         /\ open[i] = "thinking"
         /\ accumulatedText[i] = LetMePlanTheApproach \o NowLetsExecuteThis

\* The stages the display has announced, in order.
StagesAnnounced ==
    LET starts == SelectSeq(display, LAMBDA e : e.call = "reasoningStart")
    IN  [k \in 1..Len(starts) |-> starts[k].stage]

\* C15 as stated: the two deltas give exactly two stage notifications, a
\* start with Planning and then a change to Executing.
C15_PlanningThenExecuting ==
    ScenarioD => StagesAnnounced = <<PLANNING, EXECUTING>>

\* C15: the block starts under Analyzing (its text is still empty), the first
\* delta changes the stage to Planning and the second to Executing; each
\* change ends the display of the old stage, and nothing else is written.
C15_AnalyzingPlanningExecuting ==
    ScenarioD =>
        display =
            <<[call |-> "reasoningStart", stage |-> ANALYZING],
              [call |-> "reasoningEnd"],
              [call |-> "reasoningStart", stage |-> PLANNING],
              [call |-> "thinkingStream", delta |-> LetMePlanTheApproach,
               stage |-> PLANNING],
              [call |-> "reasoningEnd"],
              [call |-> "reasoningStart", stage |-> EXECUTING],
              [call |-> "thinkingStream", delta |-> NowLetsExecuteThis,
               stage |-> EXECUTING]>>

C15_Witness ==
    /\ ScenarioD
    /\ StagesAnnounced = <<ANALYZING, PLANNING, EXECUTING>>

----------------------------------------------------------------------------
(* Vocabulary of the properties about the classifier: the words of a text  *)
(* and the keyword families, written out on words                           *)

\* The words of s from position i on: its maximal runs of letters, digits
\* and underscores; cur is the run being read.
RECURSIVE SplitWords(_, _, _)
SplitWords(s, i, cur) ==
    IF i > Len(s) THEN (IF cur = <<>> THEN {} ELSE {cur})
    ELSE IF s[i] \in WordChars THEN SplitWords(s, i + 1, Append(cur, s[i]))
    ELSE (IF cur = <<>> THEN {} ELSE {cur}) \cup SplitWords(s, i + 1, <<>>)

\* The words of a text, in small letters.
WordsOf(t) == SplitWords(toLowerCase(t), 1, <<>>)

StartsWith(w, stem) == Len(stem) <= Len(w) /\ SubSeq(w, 1, Len(stem)) = stem

EvaluatingStems ==
    {<<"e", "v", "a", "l", "u", "a", "t">>,
     <<"v", "a", "l", "i", "d", "a", "t">>,
     <<"v", "e", "r", "i", "f">>,
     <<"c", "h", "e", "c", "k">>}

DecidingStems ==
    {<<"d", "e", "c", "i", "d">>,
     <<"c", "h", "o", "o", "s">>,
     <<"s", "e", "l", "e", "c", "t">>,
     <<"d", "e", "t", "e", "r", "m", "i", "n">>}

PlanningStems ==
    {<<"p", "l", "a", "n">>,
     <<"d", "e", "s", "i", "g", "n">>,
     <<"a", "p", "p", "r", "o", "a", "c", "h">>,
     <<"s", "t", "r", "a", "t", "e", "g">>}

Execut == <<"e", "x", "e", "c", "u", "t">>

Implement == <<"i", "m", "p", "l", "e", "m", "e", "n", "t">>

\* implement, implementing, implemented, write, writing, written
ExecutingWords ==
    {<<"i", "m", "p", "l", "e", "m", "e", "n", "t">>,
     <<"i", "m", "p", "l", "e", "m", "e", "n", "t", "i", "n", "g">>,
     <<"i", "m", "p", "l", "e", "m", "e", "n", "t", "e", "d">>,
     <<"w", "r", "i", "t", "e">>,
     <<"w", "r", "i", "t", "i", "n", "g">>,
     <<"w", "r", "i", "t", "t", "e", "n">>}

WritingWords ==
    {<<"w", "r", "i", "t", "e">>,
     <<"w", "r", "i", "t", "i", "n", "g">>,
     <<"w", "r", "i", "t", "t", "e", "n">>}

\* The word is a token of the family.
InFamily(w, family) ==
    CASE family = EVALUATING -> \E stem \in EvaluatingStems : StartsWith(w, stem)
      [] family = EXECUTING -> StartsWith(w, Execut) \/ w \in ExecutingWords
      [] family = DECIDING -> \E stem \in DecidingStems : StartsWith(w, stem)
      [] family = PLANNING -> \E stem \in PlanningStems : StartsWith(w, stem)
      [] OTHER -> FALSE

\* The keyword families with a token in the text.
FamiliesOf(t) ==
    LET words == WordsOf(t)
    IN  {family \in {EVALUATING, EXECUTING, DECIDING, PLANNING} :
            \E w \in words : InFamily(w, family)}

Priority == <<EVALUATING, EXECUTING, DECIDING, PLANNING, ANALYZING>>

Rank(family) == CHOOSE k \in 1..Len(Priority) : Priority[k] = family

----------------------------------------------------------------------------
\* C16: the classifier is a priority cascade Evaluating > Executing >
\* Deciding > Planning > Analyzing: a text with tokens of one or more
\* families is classified as the family of highest priority among them,
\* whatever lower families are present and wherever their tokens stand.
C16_HighestPriorityFamily ==
    LET families == FamiliesOf(text)
    IN  families # {} =>
            /\ stage \in families
            /\ \A family \in families : Rank(stage) <= Rank(family)

\* A Planning token followed by a Deciding token: Deciding.
C16_Witness ==
    /\ {DECIDING, PLANNING} \subseteq FamiliesOf(text)
    /\ text = <<"p", "l", "a", "n", " ", "d", "e", "c", "i", "d", "e">>
    /\ stage = DECIDING

----------------------------------------------------------------------------
\* C17: the classifier always returns one of the five stages, returns the
\* same stage when called again on the same text, and returns Analyzing for
\* the empty string and for every text without a token of any family.
C17_TotalWithAnalyzingDefault ==
    /\ stage \in ReasoningStage
    /\ text = prevText => stage = prevStage
    /\ text = <<>> => stage = ANALYZING
    /\ FamiliesOf(text) = {} => stage = ANALYZING

\* A text of a non-ASCII letter and a word that merely contains "plan" has
\* been classified twice.
C17_Witness ==
    /\ text = <<"é", " ", "e", "x", "p", "l", "a", "n", "a", "t", "i", "o", "n">>
    /\ FamiliesOf(text) = {}
    /\ text = prevText
    /\ stage = ANALYZING

----------------------------------------------------------------------------
\* C18 as stated: a text with a word beginning with "execut" or with
\* "implement" (any suffix), or with one of write, writing, written, and
\* with no Evaluating token, is classified as Executing.
C18_ImplementWithAnySuffix ==
    (/\ \E w \in WordsOf(text) :
            \/ StartsWith(w, Execut)
            \/ StartsWith(w, Implement)
            \/ w \in WritingWords
     /\ EVALUATING \notin FamiliesOf(text))
        => stage = EXECUTING

\* C18: a text with no Evaluating token is classified as Executing exactly
\* when it has a word beginning with "execut" or one of the words implement,
\* implementing, implemented, write, writing, written; another word that
\* begins with "implement" or "writ" (implementation, writes) does not count.
C18_ExecutingTokens ==
    LET words == WordsOf(text)
    IN  (\A w \in words : ~InFamily(w, EVALUATING)) =>
            (stage = EXECUTING <=>
                \E w \in words : StartsWith(w, Execut) \/ w \in ExecutingWords)

\* "... the implementation steps implement": the verb makes it Executing,
\* the noun before it did not.
C18_Witness ==
    /\ Implement \in WordsOf(text)
    /\ <<"i", "m", "p", "l", "e", "m", "e", "n", "t", "a", "t", "i", "o", "n">> \in WordsOf(text)
    /\ Implement \notin WordsOf(prevText)
    /\ prevStage # EXECUTING
    /\ stage = EXECUTING

----------------------------------------------------------------------------
\* The sentence of the classifier's PLANNING test.
PlanOutTheImplementationSteps ==
    CHOOSE t \in SeedTexts : t # <<>>

\* C19: a text with a Planning token (plan*, design*, approach*, strateg*)
\* and no Evaluating, Executing or Deciding token is classified as Planning;
\* the noun "implementation" is no Executing token, so "I'll plan out the
\* implementation steps" is Planning.
C19_PlanningWithoutHigherFamily ==
    /\ FamiliesOf(text) = {PLANNING} => stage = PLANNING
    /\ text = PlanOutTheImplementationSteps => stage = PLANNING

\* The sentence, and the sentence with a word without keyword after it, have
\* both been classified as Planning.
C19_Witness ==
    /\ prevText = PlanOutTheImplementationSteps
    /\ prevStage = PLANNING
    /\ text # prevText
    /\ FamiliesOf(text) = {PLANNING}
    /\ stage = PLANNING

----------------------------------------------------------------------------
\* What the last call's text has more than the call before it.
Suffix == SubSeq(text, Len(prevText) + 1, Len(text))

\* The suffix does not continue the last word of the text before it.
JoinAtWordBoundary ==
    \/ prevText = <<>>
    \/ Suffix = <<>>
    \/ prevText[Len(prevText)] \notin WordChars
    \/ Suffix[1] \notin WordChars

\* C20 as stated: appending a suffix without keyword to a text leaves its
\* stage unchanged, also when the suffix follows the text's last word with
\* no separator.
C20_KeywordFreeSuffix ==
    FamiliesOf(Suffix) = {} => stage = prevStage

\* C20: appending a suffix without keyword leaves the stage unchanged when
\* the suffix does not continue the text's last word (the text is empty or
\* ends in a non-word character, or the suffix is empty or begins with one).
C20_KeywordFreeSuffixAfterSeparator ==
    (FamiliesOf(Suffix) = {} /\ JoinAtWordBoundary) => stage = prevStage

\* A Planning text has got a separated word without keyword and is still
\* Planning.
C20_Witness ==
    /\ Suffix # <<>>
    /\ prevText # <<>>
    /\ prevText[Len(prevText)] \in WordChars
    /\ JoinAtWordBoundary
    /\ FamiliesOf(Suffix) = {}
    /\ WordsOf(Suffix) # {}
    /\ prevStage = PLANNING
    /\ stage = PLANNING

----------------------------------------------------------------------------
Writ == <<"w", "r", "i", "t">>

\* The literal stems a family's regular expression begins with.
StemsOf(family) ==
    CASE family = EVALUATING -> EvaluatingStems
      [] family = EXECUTING -> {Execut, Implement, Writ}
      [] family = DECIDING -> DecidingStems
      [] family = PLANNING -> PlanningStems
      [] OTHER -> {}

\* The offsets of s right after which the stem stands.
Occurrences(s, stem) ==
    {p \in 0..(Len(s) - Len(stem)) : SubSeq(s, p + 1, p + Len(stem)) = stem}

\* The character before offset p + 1 of s is a letter, digit or underscore.
PrecededByWordChar(s, p) == p >= 1 /\ s[p] \in WordChars

\* Every occurrence of every stem of the family stands inside a word.
OnlyInsideWords(s, family) ==
    \A stem \in StemsOf(family) :
        \A p \in Occurrences(s, stem) : PrecededByWordChar(s, p)

\* C21: keyword stems are matched only at word boundaries: a text in which
\* every occurrence of a family's stems is preceded by another word
\* character ("plan" inside "explanation") is not classified as that family.
C21_StemInsideWordDoesNotMatch ==
    LET lower == toLowerCase(text)
    IN  \A family \in {EVALUATING, EXECUTING, DECIDING, PLANNING} :
            OnlyInsideWords(lower, family) => stage # family

\* A text whose only "plan" stands inside "explanation" has been classified,
\* and not as Planning.
C21_Witness ==
    LET lower == toLowerCase(text)
    IN  /\ text # prevText
        /\ Occurrences(lower, <<"p", "l", "a", "n">>) # {}
        /\ OnlyInsideWords(lower, PLANNING)
        /\ stage # PLANNING

----------------------------------------------------------------------------
\* String.prototype.toUpperCase on ASCII text: a small letter becomes its
\* capital, every other ASCII character stays.
LowerToUpper ==
    [c \in {LowerCaseLetters[k] : k \in 1..26} |->
        UpperCaseLetters[CHOOSE k \in 1..26 : LowerCaseLetters[k] = c]]

toUpperCase(s) ==
    [i \in 1..Len(s) |->
        IF s[i] \in DOMAIN LowerToUpper THEN LowerToUpper[s[i]] ELSE s[i]]

\* The ASCII characters of the classified texts.
AsciiChars == WordChars \cup {" ", "'"}

IsAscii(s) == \A i \in 1..Len(s) : s[i] \in AsciiChars

\* C22: the classifier is case-insensitive: an ASCII text, the text in small
\* letters and the text in capitals are classified as the same stage.
C22_CaseInsensitive ==
    IsAscii(text) =>
        /\ detectReasoningStage(toLowerCase(text)) = stage
        /\ detectReasoningStage(toUpperCase(text)) = stage

\* An ASCII text of mixed case with a keyword has been classified: "Verify"
\* after other words is Evaluating, as are "verify" and "VERIFY".
C22_Witness ==
    /\ IsAscii(text)
    /\ text # toLowerCase(text)
    /\ text # toUpperCase(text)
    /\ text # prevText
    /\ prevStage # EVALUATING
    /\ stage = EVALUATING
    /\ detectReasoningStage(toUpperCase(text)) = EVALUATING

----------------------------------------------------------------------------
\* C23: a tool_use block whose partial input did not parse at block close
\* aborts neither the turn nor the dispatch phase: its id gets a tool_result
\* with is_error true and a message, no Execute is called for it, the other
\* blocks of the turn are dispatched as usual, and the dispatch phase ends
\* with one result per block and the loop at the next request.
C23_InputParseErrorIsToolError ==
    LET blocks == AllToolUseBlocks
        results == RecordedResults
        dispatchedIds == SeqToSet(dispatched)
        executedIds == SeqToSet(executed)
    IN  /\ \A b \in blocks :
             IF b.input.ok
             THEN (b.name \in Registry /\ b.id \in dispatchedIds) =>
                      b.id \in executedIds
             ELSE /\ b.id \notin executedIds
                  /\ b.id \notin running
                  /\ b.id \in dispatchedIds =>
                       \E r \in results :
                           r.tool_use_id = b.id /\ r.is_error /\ r.content # ""
        /\ lastStep = "DispatchNext" => (pc = "Dispatching" /\ rlOpen /\ ~turnAborted)
        /\ lastStep = "FinishDispatch" =>
             /\ pc = "Requesting"
             /\ ~turnAborted
             /\ Len(LastTurn.content) =
                    CountToolUse(conversation[Len(conversation) - 1])

\* A turn of two tool_use blocks, the first with an input that did not
\* parse, the second executed and resolved: both results are in the
\* conversation and the next request is in flight.
C23_Witness ==
    /\ pc = "Streaming"
    /\ Len(conversation) = 3
    /\ CountToolUse(conversation[2]) = 2
    /\ ~conversation[2].content[1].input.ok
    /\ conversation[2].content[2].input.ok
    /\ conversation[3].content[1].is_error
    /\ conversation[3].content[1].content =
           InputParseMessage("{\"path\":")
    /\ ~conversation[3].content[2].is_error
    /\ conversation[2].content[2].id \in SeqToSet(executed)

----------------------------------------------------------------------------
\* The step is a call of finishClaudeTurn: no event is handled and the next
\* stream is the first of a turn.
IsFinishStep == events' = events /\ streamNo' = 1

----------------------------------------------------------------------------
\* A stream is about to begin: none of its events has been handled yet.
AtStreamStart == lastEvent.event.type = "none"

----------------------------------------------------------------------------
\* C26: no thinking block is ever stored in the conversation: every block
\* of an assistant turn is a text or a tool_use block, also when the request
\* that produced the turn streamed thinking blocks.
C26_NoThinkingInHistory ==
    \A i \in 1..Len(conversation) :
        \A j \in 1..Len(conversation[i].content) :
            LET b == conversation[i].content[j]
            IN  /\ b.type # "thinking"
                /\ conversation[i].role = "assistant" =>
                      b.type \in {"text", "tool_use"}

\* A request that streamed a thinking block and another block has just
\* completed: the appended assistant turn holds the other block only.
C26_Witness ==
    /\ lastStep = "StreamComplete"
    /\ thinkingShown = 1
    /\ LastTurn.role = "assistant"
    /\ Len(LastTurn.content) = 1

----------------------------------------------------------------------------
\* The step handles a content_block_stop for index i, where a thinking block
\* is open.
StopsThinkingBlock(i) ==
    /\ events' = events + 1
    /\ lastEvent'.event.type = "content_block_stop"
    /\ lastEvent'.event.index = i
    /\ open[i] = "thinking"

\* C27: per block index the handler follows Closed -> Open(kind) -> Closed:
\* the block_stop of an open thinking block closes the index, and once no
\* thinking block is open the reasoning block of the display is closed too,
\* so that no block is open when a well-formed stream ends.
C27_BlockClosedAtStop ==
    [][\A i \in Indices :
          StopsThinkingBlock(i) =>
              /\ open'[i] = "closed"
              /\ (\A j \in Indices : open'[j] # "thinking") =>
                    ~reasoningBlockActive']_vars

----------------------------------------------------------------------------
\* The loop is working on a user turn.
InUserTurn == pc \in {"Requesting", "Streaming", "Dispatching"}

\* C28: when every request and every tool execution completes and the model
\* eventually answers without a tool_use block, every user turn brings the
\* loop back to AwaitingInput; the loop itself never ends a turn that has
\* tool_use blocks: after each dispatch phase, however many there have been,
\* it asks the model again.
C28_UserTurnEnds ==
    /\ InUserTurn ~> (pc = "AwaitingInput")
    /\ [][(pc = "Dispatching" /\ pc' # "Dispatching") =>
            (pc' = "Requesting" /\ lines' = lines)]_vars

\* A user turn of two requests with a dispatch phase between them has ended
\* at the prompt.
C28_Witness ==
    /\ pc = "AwaitingInput"
    /\ lastStep = "StreamComplete"
    /\ lines = 1
    /\ requests = 2
    /\ Len(conversation) = 4
    /\ Len(executed) > 0

----------------------------------------------------------------------------
\* The positions of the conversation whose turn has the role of the turn
\* after it.
SameRoleAsNext ==
    {i \in 1..(Len(conversation) - 1) :
        conversation[i].role = conversation[i + 1].role}

\* C29 as stated: the conversation starts with a user turn and no two
\* adjacent turns have the same role, also after a transport error has
\* aborted a user turn and the user has entered a new line.
C29_RolesAlternate ==
    /\ conversation # <<>> => conversation[1].role = "user"
    /\ SameRoleAsNext = {}

\* C29: the conversation starts with a user turn and no two assistant turns
\* are adjacent; user and assistant turns alternate strictly as long as no
\* request has failed.  After a transport error the aborted user turn stays
\* in the conversation unanswered, and the next line the user enters is a
\* second user turn right after it: there are at most as many such pairs as
\* errors shown, and the second turn of each is a line of text.
C29_RolesAlternateUnlessAborted ==
    /\ conversation # <<>> => conversation[1].role = "user"
    /\ errorsShown = 0 => SameRoleAsNext = {}
    /\ Cardinality(SameRoleAsNext) <= errorsShown
    /\ \A i \in SameRoleAsNext :
         /\ conversation[i].role = "user"
         /\ Len(conversation[i + 1].content) = 1
         /\ conversation[i + 1].content[1].type = "text"

\* A request failed, the user entered a new line and its request got an
\* answer: two user turns, then an assistant turn.
C29_Witness ==
    /\ errorsShown = 1
    /\ lines = 2
    /\ lastStep = "StreamComplete"
    /\ Len(conversation) = 3
    /\ SameRoleAsNext = {1}
    /\ conversation[3].role = "assistant"

----------------------------------------------------------------------------
\* C30 as stated: the stage of a text with a suffix appended never has a
\* lower priority than the stage of the text, whatever the suffix and
\* wherever the text is cut into deltas.
C30_StageNeverLowers == Rank(stage) <= Rank(prevStage)

\* C30: the stage of a text with a suffix appended has no lower priority
\* than the stage of the text when the suffix does not continue the text's
\* last word; a suffix that does can lower it ("implement" is Executing,
\* "implementation" is not).
C30_StageNeverLowersAtWordBoundary ==
    JoinAtWordBoundary => Rank(stage) <= Rank(prevStage)

\* A Planning text has got " Verify" appended and is Evaluating.
C30_Witness ==
    /\ Suffix = <<" ", "V", "e", "r", "i", "f", "y">>
    /\ prevText # <<>>
    /\ JoinAtWordBoundary
    /\ prevStage = PLANNING
    /\ stage = EVALUATING

====
